---- MODULE Spec2Model ----
(***************************************************************************)
(* A model of remove_links.py: the walk over the directory tree, the       *)
(* regular-expression substitution applied to every CHANGELOG.md, and the  *)
(* conditional write-back with its per-file status line.                   *)
(*                                                                         *)
(* A text is a sequence of one-character strings.                          *)
(***************************************************************************)
EXTENDS Integers, Sequences, FiniteSets, TLC

VARIABLES tree, disk, init, orig, stack, root, files, pc, cur, content,
          new_content, err, output, opened, run

vars == <<tree, disk, init, orig, stack, root, files, pc, cur, content,
          new_content, err, output, opened, run>>

(***************************************************************************)
(* Bounds of the model.                                                    *)
(***************************************************************************)
\* longest text, in blocks, that the single-file specification enumerates
MaxBlocks == 3
\* longest partial content a failed write leaves behind
MaxPartial == 1

(***************************************************************************)
(* The regular expression of line 18 and the template of line 19.          *)
(***************************************************************************)
Lit(c) == [kind |-> "lit", ch |-> c]
\* [^c]+ : one or more characters other than c, greedy
NotPlus(c) == [kind |-> "notplus", ch |-> c]
Ref(g) == [kind |-> "ref", group |-> g]

\* r'## \[([^\]]+)\]\([^)]+\) (\([^)]+\))'
pattern ==
  << Lit("#"), Lit("#"), Lit(" "), Lit("["), NotPlus("]"), Lit("]"), Lit("("),
     NotPlus(")"), Lit(")"), Lit(" "), Lit("("), NotPlus(")"), Lit(")") >>

\* the capture groups of pattern: the first and last node of each
groups == << [first |-> 5, last |-> 5], [first |-> 11, last |-> 13] >>

\* r'## \1\2': the space between the label and the parenthetical forgotten
replacementWithoutSpace == << Lit("#"), Lit("#"), Lit(" "), Ref(1), Ref(2) >>

\* r'## \1 \2'
replacement == << Lit("#"), Lit("#"), Lit(" "), Ref(1), Lit(" "), Ref(2) >>

Min(S) == CHOOSE x \in S : \A y \in S : x <= y

\* the length of the longest run of characters other than c starting at pos
RunLength(t, pos, c) ==
  Min({j \in pos .. Len(t) : t[j] = c} \cup {Len(t) + 1}) - pos

\* of the matches S, those whose first node took the most
Longest(S) == {m \in S : \A n \in S : m[1] >= n[1]}

\* of the matches S, those that start leftmost
Leftmost(S) == {m \in S : \A n \in S : m[1] <= n[1]}

\* The backtracking matcher: the match of nodes k.. of pattern against t from
\* position pos, as the sequence of the positions after the text each node
\* took.  The result is the set holding the match, empty when there is none.
RECURSIVE MatchFrom(_, _, _)

\* the greedy repeat of node k can take t[pos..e-1] for e up to emax: it keeps
\* the longest of them, at least one character, the rest of the pattern matches
Backtrack(t, k, pos, emax) ==
  UNION {Longest(S) :
           S \in {UNION {{<<e>> \o r : r \in MatchFrom(t, k + 1, e)} :
                           e \in pos + 1 .. emax}}}

MatchFrom(t, k, pos) ==
  IF k > Len(pattern) THEN {<< >>}
  ELSE IF pattern[k].kind = "lit"
  THEN IF pos <= Len(t) /\ t[pos] = pattern[k].ch
       THEN {<<pos + 1>> \o r : r \in MatchFrom(t, k + 1, pos + 1)}
       ELSE {}
  ELSE Backtrack(t, k, pos, pos + RunLength(t, pos, pattern[k].ch))

\* the leftmost match of pattern in t from position pos on: where it starts,
\* followed by the positions after each node
Search(t, pos) ==
  UNION {Leftmost(S) :
           S \in {UNION {{<<i>> \o m : m \in MatchFrom(t, 1, i)} :
                           i \in pos .. Len(t)}}}

\* the text of capture group g in the match m
GroupText(t, m, g) == SubSeq(t, m[groups[g].first], m[groups[g].last + 1] - 1)

\* the replacement template expanded for the match m
RECURSIVE Expand(_, _, _)
Expand(t, m, i) ==
  IF i > Len(replacement) THEN << >>
  ELSE (IF replacement[i].kind = "lit" THEN <<replacement[i].ch>>
        ELSE GroupText(t, m, replacement[i].group))
       \o Expand(t, m, i + 1)

\* re.sub with count=1: the first match is replaced, the rest is copied
SubFromOnce(t, pos) ==
  LET found == Search(t, pos)
  IN  IF found = {} THEN SubSeq(t, pos, Len(t))
      ELSE CHOOSE r \in {SubSeq(t, pos, m[1] - 1) \o Expand(t, m, 1)
                           \o SubSeq(t, m[Len(pattern) + 1], Len(t)) : m \in found} : TRUE

\* re.sub from position pos on: the text up to the leftmost match is copied,
\* the match is replaced and the scan goes on after it
RECURSIVE SubFrom(_, _)
SubFrom(t, pos) ==
  LET found == Search(t, pos)
  IN  IF found = {} THEN SubSeq(t, pos, Len(t))
      ELSE CHOOSE r \in {SubSeq(t, pos, m[1] - 1) \o Expand(t, m, 1)
                           \o SubFrom(t, m[Len(pattern) + 1]) : m \in found} : TRUE

\* new_content = re.sub(pattern, replacement, content)
Transform(t) == SubFrom(t, 1)

(***************************************************************************)
(* The codec of open(..., encoding='utf-8') in text mode.  A file on disk  *)
(* is a sequence of bytes: an ASCII byte is written as its character, and  *)
(* C3, A9 and E9 are the bytes 0xC3, 0xA9 and 0xE9.  U+00E9 is encoded as  *)
(* 0xC3 0xA9; 0xE9 alone (Latin-1) and a stray 0xC3 or 0xA9 are invalid.   *)
(***************************************************************************)
EAcute == "e'"

\* the positions of the bytes that are not part of a UTF-8 character
Malformed(b) ==
  {i \in DOMAIN b :
     \/ b[i] = "C3" /\ ~(i < Len(b) /\ b[i + 1] = "A9")
     \/ b[i] = "A9" /\ ~(i > 1 /\ b[i - 1] = "C3")
     \/ b[i] = "E9"}

\* whether the bytes are valid UTF-8
Valid(b) == Malformed(b) = {}

\* what the byte at position i of valid bytes reads as: nothing for the second
\* byte of a character and for the \n of \r\n; \r reads as \n (universal newlines)
DecodeAt(b, i) ==
  IF b[i] = "A9" \/ (b[i] = "\n" /\ i > 1 /\ b[i - 1] = "\r") THEN << >>
  ELSE IF b[i] = "C3" THEN <<EAcute>>
  ELSE IF b[i] = "\r" THEN <<"\n">>
  ELSE <<b[i]>>

RECURSIVE DecodeRange(_, _, _)
DecodeRange(b, lo, hi) ==
  IF lo > hi THEN << >>
  ELSE IF lo = hi THEN DecodeAt(b, lo)
  ELSE DecodeRange(b, lo, (lo + hi) \div 2) \o DecodeRange(b, (lo + hi) \div 2 + 1, hi)

\* f.read() of line 13
Decode(b) == DecodeRange(b, 1, Len(b))

\* the bytes of one character: UTF-8, a newline written as os.linesep (POSIX: \n)
EncodeChar(c) == IF c = EAcute THEN <<"C3", "A9">> ELSE <<c>>

RECURSIVE EncodeRange(_, _, _)
EncodeRange(t, lo, hi) ==
  IF lo > hi THEN << >>
  ELSE IF lo = hi THEN EncodeChar(t[lo])
  ELSE EncodeRange(t, lo, (lo + hi) \div 2) \o EncodeRange(t, (lo + hi) \div 2 + 1, hi)

\* f.write() of line 25
Encode(t) == EncodeRange(t, 1, Len(t))

(***************************************************************************)
(* The directory tree.                                                     *)
(***************************************************************************)
\* os.path.join(root, file)
Join(a, b) == a \o "/" \o b

\* the name is compared without regard to case
IsTargetAnyCase(file) == file \in {"CHANGELOG.md", "changelog.md", "Changelog.md"}

\* line 9: file == 'CHANGELOG.md'
IsTarget(file) == file = "CHANGELOG.md"

\* the orders in which a directory listing can return the names of S
Orders(S) == {o \in [1 .. Cardinality(S) -> S] : \A i, j \in DOMAIN o : o[i] = o[j] => i = j}

\* every path of a file of the tree tr
Paths(tr) == UNION {{Join(d, f) : f \in tr[d].files} : d \in DOMAIN tr}

\* the paths of the files of tr whose name is exactly CHANGELOG.md
Changelogs(tr) == {Join(d, "CHANGELOG.md") : d \in {e \in DOMAIN tr : "CHANGELOG.md" \in tr[e].files}}

(***************************************************************************)
(* The steps of remove_changelog_links.                                    *)
(***************************************************************************)
\* the directory yielded stays on the stack and is walked again
WalkDirAgain ==
  /\ pc = "walk"
  /\ stack # << >>
  /\ LET d == stack[Len(stack)]
     IN  /\ root' = d
         /\ files' = tree[d].files
         /\ \E o \in Orders(tree[d].dirs) :
              stack' = stack \o [i \in DOMAIN o |-> Join(d, o[i])]
  /\ pc' = "for_file"
  /\ UNCHANGED <<tree, disk, init, orig, cur, content, new_content, err, output, opened, run>>

\* os.walk yields the next directory and pushes its subdirectories
WalkDir ==
  /\ pc = "walk"
  /\ stack # << >>
  /\ LET d == stack[Len(stack)]
     IN  /\ root' = d
         /\ files' = tree[d].files
         /\ \E o \in Orders(tree[d].dirs) :
              stack' = SubSeq(stack, 1, Len(stack) - 1) \o [i \in DOMAIN o |-> Join(d, o[i])]
  /\ pc' = "for_file"
  /\ UNCHANGED <<tree, disk, init, orig, cur, content, new_content, err, output, opened, run>>

\* os.walk is exhausted: the function returns
WalkEnd ==
  /\ pc = "walk"
  /\ stack = << >>
  /\ pc' = "done"
  /\ UNCHANGED <<tree, disk, init, orig, stack, root, files, cur, content, new_content,
                 err, output, opened, run>>

\* the files of the current directory are exhausted
FilesEnd ==
  /\ pc = "for_file"
  /\ files = {}
  /\ pc' = "walk"
  /\ UNCHANGED <<tree, disk, init, orig, stack, root, files, cur, content, new_content,
                 err, output, opened, run>>

\* a file of another name is passed over
SkipFile ==
  /\ pc = "for_file"
  /\ \E f \in files :
       /\ ~IsTarget(f)
       /\ files' = files \ {f}
  /\ UNCHANGED <<tree, disk, init, orig, stack, root, pc, cur, content, new_content,
                 err, output, opened, run>>

\* a file named CHANGELOG.md: its path is built and the try block entered
SelectFile ==
  /\ pc = "for_file"
  /\ \E f \in files :
       /\ IsTarget(f)
       /\ files' = files \ {f}
       /\ cur' = Join(root, f)
  /\ pc' = "open_r"
  /\ UNCHANGED <<tree, disk, init, orig, stack, root, content, new_content, err, output,
                 opened, run>>

\* open(file_path, 'r') succeeds
OpenRead ==
  /\ pc = "open_r"
  /\ opened' = opened \cup {<<cur, "r">>}
  /\ pc' = "read"
  /\ UNCHANGED <<tree, disk, init, orig, stack, root, files, cur, content, new_content,
                 err, output, run>>

\* the open stands outside the try block: its exception leaves the function
OpenReadFailUncaught ==
  /\ pc = "open_r"
  /\ err' = "PermissionError"
  /\ pc' = "raised"
  /\ UNCHANGED <<tree, disk, init, orig, stack, root, files, cur, content, new_content,
                 output, opened, run>>

\* open(file_path, 'r') raises (permission denied): the file is not opened
OpenReadFail ==
  /\ pc = "open_r"
  /\ err' = "PermissionError"
  /\ pc' = "except"
  /\ UNCHANGED <<tree, disk, init, orig, stack, root, files, cur, content, new_content,
                 output, opened, run>>

\* f.read() returns the decoded text
Read ==
  /\ pc = "read"
  /\ Valid(disk[cur])
  /\ content' = Decode(disk[cur])
  /\ pc' = "sub"
  /\ UNCHANGED <<tree, disk, init, orig, stack, root, files, cur, new_content, err,
                 output, opened, run>>

\* f.read() raises: the bytes are not UTF-8, or the device fails
ReadFail ==
  /\ pc = "read"
  /\ \/ ~Valid(disk[cur]) /\ err' = "UnicodeDecodeError"
     \/ err' = "OSError"
  /\ pc' = "except"
  /\ UNCHANGED <<tree, disk, init, orig, stack, root, files, cur, content, new_content,
                 output, opened, run>>

\* line 20
Sub ==
  /\ pc = "sub"
  /\ new_content' = Transform(content)
  /\ pc' = "compare"
  /\ UNCHANGED <<tree, disk, init, orig, stack, root, files, cur, content, err, output,
                 opened, run>>

\* the test of line 23 taken the wrong way round
CompareInverted ==
  /\ pc = "compare"
  /\ pc' = IF new_content = content THEN "open_w" ELSE "print_nochange"
  /\ UNCHANGED <<tree, disk, init, orig, stack, root, files, cur, content, new_content,
                 err, output, opened, run>>

\* the content is written back whether it changed or not
CompareAlways ==
  /\ pc = "compare"
  /\ pc' = "open_w"
  /\ UNCHANGED <<tree, disk, init, orig, stack, root, files, cur, content, new_content,
                 err, output, opened, run>>

\* line 23
Compare ==
  /\ pc = "compare"
  /\ pc' = IF new_content # content THEN "open_w" ELSE "print_nochange"
  /\ UNCHANGED <<tree, disk, init, orig, stack, root, files, cur, content, new_content,
                 err, output, opened, run>>

\* open(file_path, 'w') succeeds: the file is truncated
OpenWrite ==
  /\ pc = "open_w"
  /\ opened' = opened \cup {<<cur, "w">>}
  /\ disk' = [disk EXCEPT ![cur] = << >>]
  /\ pc' = "write"
  /\ UNCHANGED <<tree, init, orig, stack, root, files, cur, content, new_content, err,
                 output, run>>

\* open(file_path, 'w') raises (the file is read-only): nothing is truncated
OpenWriteFail ==
  /\ pc = "open_w"
  /\ err' = "PermissionError"
  /\ pc' = "except"
  /\ UNCHANGED <<tree, disk, init, orig, stack, root, files, cur, content, new_content,
                 output, opened, run>>

\* the text read is written back in place of the text substituted
WriteOriginal ==
  /\ pc = "write"
  /\ disk' = [disk EXCEPT ![cur] = Encode(content)]
  /\ pc' = "print_removed"
  /\ UNCHANGED <<tree, init, orig, stack, root, files, cur, content, new_content, err,
                 output, opened, run>>

\* the new text is written over the old bytes, whose tail stays (mode 'r+')
WriteOverOld ==
  /\ pc = "write"
  /\ disk' = [disk EXCEPT ![cur] =
                Encode(new_content)
                \o SubSeq(orig[cur], Len(Encode(new_content)) + 1, Len(orig[cur]))]
  /\ pc' = "print_removed"
  /\ UNCHANGED <<tree, init, orig, stack, root, files, cur, content, new_content, err,
                 output, opened, run>>

\* f.write(new_content) and the close that flushes it
Write ==
  /\ pc = "write"
  /\ disk' = [disk EXCEPT ![cur] = Encode(new_content)]
  /\ pc' = "print_removed"
  /\ UNCHANGED <<tree, init, orig, stack, root, files, cur, content, new_content, err,
                 output, opened, run>>

\* the flush fails (disk full, device error) after k bytes reached the file
WriteFail ==
  /\ pc = "write"
  /\ \E k \in 0 .. MaxPartial :
       /\ k < Len(Encode(new_content))
       /\ disk' = [disk EXCEPT ![cur] = SubSeq(Encode(new_content), 1, k)]
  /\ err' = "OSError"
  /\ pc' = "except"
  /\ UNCHANGED <<tree, init, orig, stack, root, files, cur, content, new_content, output,
                 opened, run>>

\* line 26
PrintRemoved ==
  /\ pc = "print_removed"
  /\ output' = Append(output, [status |-> "removed", path |-> cur, desc |-> ""])
  /\ pc' = "for_file"
  /\ UNCHANGED <<tree, disk, init, orig, stack, root, files, cur, content, new_content,
                 err, opened, run>>

\* line 28
PrintNoChange ==
  /\ pc = "print_nochange"
  /\ output' = Append(output, [status |-> "nochange", path |-> cur, desc |-> ""])
  /\ pc' = "for_file"
  /\ UNCHANGED <<tree, disk, init, orig, stack, root, files, cur, content, new_content,
                 err, opened, run>>

\* the exception is swallowed without a word
ExceptSilent ==
  /\ pc = "except"
  /\ pc' = "for_file"
  /\ UNCHANGED <<tree, disk, init, orig, stack, root, files, cur, content, new_content,
                 err, output, opened, run>>

\* lines 30-31
Except ==
  /\ pc = "except"
  /\ output' = Append(output, [status |-> "error", path |-> cur, desc |-> err])
  /\ pc' = "for_file"
  /\ UNCHANGED <<tree, disk, init, orig, stack, root, files, cur, content, new_content,
                 err, opened, run>>

\* the process is terminated from outside; nothing buffered reaches the disk
Kill ==
  /\ pc \notin {"done", "killed"}
  /\ pc' = "killed"
  /\ UNCHANGED <<tree, disk, init, orig, stack, root, files, cur, content, new_content,
                 err, output, opened, run>>

\* the program is started again over the tree the first run left
SecondRun ==
  /\ pc = "done"
  /\ run = "first"
  /\ run' = "second"
  /\ orig' = disk
  /\ stack' = <<".">>
  /\ root' = ""
  /\ files' = {}
  /\ cur' = ""
  /\ content' = << >>
  /\ new_content' = << >>
  /\ err' = ""
  /\ output' = << >>
  /\ opened' = {}
  /\ pc' = "walk"
  /\ UNCHANGED <<tree, disk, init>>

(***************************************************************************)
(* The files the specifications start from.                                *)
(***************************************************************************)
Scenario1 ==
  << "#", "#", " ", "[", "1", ".", "2", ".", "0", "]", "(", "h", "t", "t", "p", "s",
     ":", "/", "/", "e", "x", "a", "m", "p", "l", "e", ".", "c", "o", "m", "/", "c",
     "o", "m", "p", "a", "r", "e", "/", "v", "1", ".", "1", ".", "0", ".", ".", ".",
     "v", "1", ".", "2", ".", "0", ")", " ", "(", "2", "0", "2", "4", "-", "0", "1",
     "-", "1", "5", ")", "\n" >>

Scenario2 ==
  << "#", "#", " ", "[", "U", "n", "r", "e", "l", "e", "a", "s", "e", "d", "]", "(",
     "h", "t", "t", "p", "s", ":", "/", "/", "e", "x", "a", "m", "p", "l", "e", ".",
     "c", "o", "m", "/", "c", "o", "m", "p", "a", "r", "e", "/", "v", "1", ".", "2",
     ".", "0", ".", ".", ".", "H", "E", "A", "D", ")", "\n" >>

Scenario3 ==
  << "#", "#", " ", "[", "U", "n", "r", "e", "l", "e", "a", "s", "e", "d", "]", "(",
     "h", "t", "t", "p", "s", ":", "/", "/", "e", "x", "a", "m", "p", "l", "e", ".",
     "c", "o", "m", "/", "c", "o", "m", "p", "a", "r", "e", "/", "v", "1", ".", "2",
     ".", "0", ".", ".", ".", "H", "E", "A", "D", ")", "\r", "\n", "#", "#", " ", "[",
     "1", ".", "2", ".", "0", "]", "(", "h", "t", "t", "p", "s", ":", "/", "/", "e",
     "x", "a", "m", "p", "l", "e", ".", "c", "o", "m", "/", "c", "o", "m", "p", "a",
     "r", "e", "/", "v", "1", ".", "1", ".", "0", ".", ".", ".", "v", "1", ".", "2",
     ".", "0", ")", " ", "(", "2", "0", "2", "4", "-", "0", "1", "-", "1", "5", ")",
     "\r", "\n", "*", " ", "c", "a", "f", "C3", "A9", "\r", "\n", "#", "#", " ", "[",
     "1", ".", "1", ".", "0", "]", "(", "h", "t", "t", "p", "s", ":", "/", "/", "e",
     "x", "a", "m", "p", "l", "e", ".", "c", "o", "m", "/", "c", "o", "m", "p", "a",
     "r", "e", "/", "v", "1", ".", "0", ".", "0", ".", ".", ".", "v", "1", ".", "1",
     ".", "0", ")", " ", "(", "2", "0", "2", "4", "-", "0", "1", "-", "0", "1", ")",
     "\r", "\n", "#", "#", " ", "1", ".", "0", ".", "0", " ", "(", "2", "0", "2", "3",
     "-", "1", "2", "-", "0", "1", ")", "\r", "\n" >>

Nested ==
  << "#", "#", " ", "[", "#", "#", " ", "[", "a", "]", "(", "u", ")", " ", "(", "d",
     ")", "\n", "]", "(", "u", ")", " ", "(", "d", ")", "\n" >>

Latin1 ==
  << "#", "#", " ", "[", "a", "]", "(", "u", ")", " ", "(", "d", ")", "\n", "*", " ",
     "c", "a", "f", "E9", "\n" >>

Linked ==
  << "#", "#", " ", "[", "a", "]", "(", "u", ")", " ", "(", "d", ")", "\n" >>

PlainHeading ==
  << "#", "#", " ", "a", " ", "(", "d", ")", "\n" >>

NoParen ==
  << "#", "#", " ", "[", "a", "]", "(", "u", ")", "\n" >>

OpenLink ==
  << "#", "#", " ", "[" >>

LinkTail ==
  << "]", "(", "u", ")", " ", "(", "d", ")", "\n" >>

Body ==
  << "\r", "\n", "*", " ", "C3", "A9", " " >>

Scenario1Text ==
  << "#", "#", " ", "1", ".", "2", ".", "0", " ", "(", "2", "0", "2", "4", "-", "0",
     "1", "-", "1", "5", ")", "\n" >>

Scenario3Text ==
  << "#", "#", " ", "[", "U", "n", "r", "e", "l", "e", "a", "s", "e", "d", "]", "(",
     "h", "t", "t", "p", "s", ":", "/", "/", "e", "x", "a", "m", "p", "l", "e", ".",
     "c", "o", "m", "/", "c", "o", "m", "p", "a", "r", "e", "/", "v", "1", ".", "2",
     ".", "0", ".", ".", ".", "H", "E", "A", "D", ")", "\n", "#", "#", " ", "1", ".",
     "2", ".", "0", " ", "(", "2", "0", "2", "4", "-", "0", "1", "-", "1", "5", ")",
     "\n", "*", " ", "c", "a", "f", "e'", "\n", "#", "#", " ", "1", ".", "1", ".", "0",
     " ", "(", "2", "0", "2", "4", "-", "0", "1", "-", "0", "1", ")", "\n", "#", "#",
     " ", "1", ".", "0", ".", "0", " ", "(", "2", "0", "2", "3", "-", "1", "2", "-",
     "0", "1", ")", "\n" >>

Empty == << >>

\* the contents a CHANGELOG.md of the tree starts with
Scenarios == {Empty, Scenario1, Scenario2, Scenario3, Nested, Latin1}

\* the pieces the single-file specification builds its texts from
Blocks == {Linked, PlainHeading, NoParen, OpenLink, LinkTail, Body}

RECURSIVE Concat(_)
Concat(ss) == IF ss = << >> THEN << >> ELSE Head(ss) \o Concat(Tail(ss))

\* every concatenation of at most MaxBlocks blocks
Texts == {Concat(ss) : ss \in UNION {[1 .. k -> Blocks] : k \in 0 .. MaxBlocks}}

\* two CHANGELOG.md at depth 0 and 2, and files of other names beside them
FullTree ==
  [d \in {".", "./docs", "./pkg", "./pkg/core"} |->
     CASE d = "."          -> [files |-> {"CHANGELOG.md", "changelog.md"}, dirs |-> {"docs", "pkg"}]
       [] d = "./docs"     -> [files |-> {"CHANGELOG.md.bak"}, dirs |-> {}]
       [] d = "./pkg"      -> [files |-> {}, dirs |-> {"core"}]
       [] d = "./pkg/core" -> [files |-> {"CHANGELOG.md", "README.md"}, dirs |-> {}]]

\* one CHANGELOG.md and a file of another name
SingleTree == [d \in {"."} |-> [files |-> {"CHANGELOG.md", "changelog.md"}, dirs |-> {}]]

\* the state when remove_changelog_links() is called on tree tr holding d
Start(tr, d) ==
  /\ tree = tr
  /\ disk = d
  /\ init = d
  /\ orig = d
  /\ stack = <<".">>
  /\ root = ""
  /\ files = {}
  /\ pc = "walk"
  /\ cur = ""
  /\ content = << >>
  /\ new_content = << >>
  /\ err = ""
  /\ output = << >>
  /\ opened = {}
  /\ run = "first"

\* every CHANGELOG.md of tr holds one of the texts of S; the other files hold a
\* linked heading
Contents(tr, S) ==
  {[p \in Paths(tr) |-> IF p \in Changelogs(tr) THEN c[p] ELSE Linked] :
     c \in [Changelogs(tr) -> S]}

Init == \E d \in Contents(FullTree, Scenarios) : Start(FullTree, d)

InitText == \E d \in Contents(SingleTree, Texts \cup Scenarios) : Start(SingleTree, d)

\* the steps of one run of the program
Step ==
  \/ WalkDir
  \/ WalkEnd
  \/ FilesEnd
  \/ SkipFile
  \/ SelectFile
  \/ OpenRead
  \/ OpenReadFail
  \/ Read
  \/ ReadFail
  \/ Sub
  \/ Compare
  \/ OpenWrite
  \/ OpenWriteFail
  \/ Write
  \/ WriteFail
  \/ PrintRemoved
  \/ PrintNoChange
  \/ Except

Next == Step \/ Kill

NextText == Step \/ SecondRun

\* the tree of several files, one run that may be terminated from outside
Spec == Init /\ [][Next]_vars

\* one CHANGELOG.md holding every text of Texts, and two runs left to finish
SpecText == InitText /\ [][NextText]_vars

\* a run that is not terminated: the interpreter keeps taking steps
LiveSpec == Init /\ [][Step]_vars /\ WF_vars(Step)

(***************************************************************************)
(* What the claims speak of, stated without the matcher: a linked heading  *)
(* is described by where it starts and how long its three parts are.       *)
(***************************************************************************)
\* the text s stands in t at position i
HasAt(t, i, s) == i >= 1 /\ i + Len(s) - 1 <= Len(t) /\ SubSeq(t, i, i + Len(s) - 1) = s

\* none of t[lo..hi] is the character c
NoneOf(t, lo, hi, c) == \A j \in lo .. hi : t[j] # c

\* the <<la, lu, lp>> such that t holds, at position i, the text ## [L](U) (P)
\* with la characters L other than ], lu characters U other than ) and lp
\* characters P other than )
Shapes(t, i) ==
  IF ~HasAt(t, i, <<"#", "#", " ", "[">>) THEN {}
  ELSE UNION {
         UNION {
           {<<la, lu, lp>> :
              lp \in {n \in 1 .. Len(t) :
                        /\ i + 9 + la + lu + n <= Len(t)
                        /\ NoneOf(t, i + 9 + la + lu, i + 8 + la + lu + n, ")")
                        /\ HasAt(t, i + 9 + la + lu + n, <<")">>)}} :
           lu \in {n \in 1 .. Len(t) :
                     /\ i + 6 + la + n <= Len(t)
                     /\ NoneOf(t, i + 6 + la, i + 5 + la + n, ")")
                     /\ HasAt(t, i + 6 + la + n, <<")", " ", "(">>)}} :
         la \in {n \in 1 .. Len(t) :
                   /\ i + 4 + n <= Len(t)
                   /\ NoneOf(t, i + 4, i + 3 + n, "]")
                   /\ HasAt(t, i + 4 + n, <<"]", "(">>)}}

\* the linked headings of t from position pos on, leftmost first and not
\* overlapping: where each starts, and the lengths of its parts
RECURSIVE Headings(_, _)
Headings(t, pos) ==
  LET at == {i \in pos .. Len(t) : Shapes(t, i) # {}}
  IN  IF at = {} THEN << >>
      ELSE LET i == Min(at)
               w == CHOOSE x \in Shapes(t, i) : TRUE
           IN  <<[at |-> i, la |-> w[1], lu |-> w[2], lp |-> w[3]]>>
               \o Headings(t, i + w[1] + w[2] + w[3] + 10)

\* the first position after heading h
EndOf(h) == h.at + h.la + h.lu + h.lp + 10

\* ## L (P) for the heading h of t
Unlinked(t, h) ==
  <<"#", "#", " ">> \o SubSeq(t, h.at + 4, h.at + 3 + h.la) \o <<" ">>
  \o SubSeq(t, h.at + 8 + h.la + h.lu, h.at + 9 + h.la + h.lu + h.lp)

\* t with its headings hs[k..] rewritten, from position pos on
RECURSIVE Rewritten(_, _, _, _)
Rewritten(t, hs, k, pos) ==
  IF k > Len(hs) THEN SubSeq(t, pos, Len(t))
  ELSE SubSeq(t, pos, hs[k].at - 1) \o Unlinked(t, hs[k]) \o Rewritten(t, hs, k + 1, EndOf(hs[k]))

\* line 20 has just computed new_content from content
Substituted == pc = "compare"

\* C1: every linked heading ## [L](U) (P) of the text read, taken leftmost first
\* and not overlapping, is replaced by ## L (P) with L and (P) copied as they
\* are, wherever in the text it stands; the heading of scenario 1 becomes
\* ## 1.2.0 (2024-01-15).
C1_EveryLinkedHeadingIsUnlinked ==
  Substituted =>
    /\ new_content = Rewritten(content, Headings(content, 1), 1, 1)
    /\ content = Decode(Scenario1) => new_content = Scenario1Text

\* a heading that does not start a line has been rewritten
C1_Witness ==
  /\ pc = "compare"
  /\ new_content # content
  /\ \E i \in 2 .. Len(content) : Shapes(content, i) # {} /\ content[i - 1] # "\n"

\* the characters the headings of hs that start before position j lose
RECURSIVE RemovedBefore(_, _, _)
RemovedBefore(hs, k, j) ==
  IF k > Len(hs) \/ hs[k].at >= j THEN 0
  ELSE hs[k].lu + 4 + RemovedBefore(hs, k + 1, j)

\* position j of t lies in none of the headings hs
Outside(hs, j) == \A k \in DOMAIN hs : j < hs[k].at \/ j >= EndOf(hs[k])

\* C8: the substitution changes the linked headings only: every character
\* outside them is in the output, in the same order, and the output holds
\* nothing else but the rewritten headings; a heading without a link and a
\* linked heading without a parenthetical are outside them; of the file of
\* scenario 3 the two linked headings alone are rewritten.
C8_TextOutsideHeadingsIsKept ==
  Substituted =>
    LET hs == Headings(content, 1)
    IN  /\ Len(new_content) = Len(content) - RemovedBefore(hs, 1, Len(content) + 1)
        /\ \A j \in DOMAIN content :
             Outside(hs, j) => new_content[j - RemovedBefore(hs, 1, j)] = content[j]
        /\ \A j \in DOMAIN content :
             /\ HasAt(content, j, Decode(PlainHeading)) /\ Outside(hs, j)
                  => HasAt(new_content, j - RemovedBefore(hs, 1, j), Decode(PlainHeading))
             /\ HasAt(content, j, Decode(NoParen)) /\ Outside(hs, j)
                  => HasAt(new_content, j - RemovedBefore(hs, 1, j), Decode(NoParen))
        /\ content = Decode(Scenario3) => new_content = Scenario3Text

\* a text has been rewritten in which a heading without a link and a linked
\* heading without a parenthetical follow a linked heading
C8_Witness ==
  /\ pc = "compare"
  /\ Headings(content, 1) # << >>
  /\ \E i, j \in Headings(content, 1)[1].at + 1 .. Len(content) :
       /\ HasAt(content, i, Decode(PlainHeading))
       /\ HasAt(content, j, Decode(NoParen))
       /\ HasAt(new_content, i - RemovedBefore(Headings(content, 1), 1, i), Decode(PlainHeading))
       /\ HasAt(new_content, j - RemovedBefore(Headings(content, 1), 1, j), Decode(NoParen))

\* the status lines printed for path p
Lines(p) == {k \in DOMAIN output : output[k].path = p}

\* the text the file that held the bytes b is to hold
Target(b) == Encode(Transform(Decode(b)))

\* the first run left in p what the substitution makes of p's first content
Settled(p) ==
  /\ Valid(init[p])
  /\ \/ orig[p] = Target(init[p])
     \/ orig[p] = init[p] /\ Transform(Decode(init[p])) = Decode(init[p])

\* every ## [ of t starts one of its linked headings, whose label does not
\* start with [
PlainHeadings(t) ==
  LET hs == Headings(t, 1)
      starts == {hs[k].at : k \in DOMAIN hs}
  IN  \A i \in DOMAIN t :
        HasAt(t, i, <<"#", "#", " ", "[">>) => i \in starts /\ ~HasAt(t, i + 4, <<"[">>)

\* C2 as stated: the substitution applied to its own output changes nothing,
\* for every text, and a second run writes no file the first run rewrote.
C2_Idempotent ==
  /\ Substituted => Transform(new_content) = new_content
  /\ run = "second" =>
       \A p \in Changelogs(tree) : <<p, "w">> \in opened => ~Settled(p)

\* C2 as amended: the substitution applied to its own output changes nothing
\* when every ## [ of the text starts a linked heading whose label does not
\* start with [, and a second run writes no such file the first run rewrote.
C2_IdempotentOnPlainHeadings ==
  /\ Substituted /\ PlainHeadings(content) => Transform(new_content) = new_content
  /\ run = "second" =>
       \A p \in Changelogs(tree) :
         <<p, "w">> \in opened => ~(Settled(p) /\ PlainHeadings(Decode(init[p])))

\* the second run has read a file the first run rewrote and has not written it
C2_Witness ==
  /\ run = "second"
  /\ pc = "done"
  /\ \E p \in Changelogs(tree) :
       /\ Settled(p)
       /\ PlainHeadings(Decode(init[p]))
       /\ orig[p] # init[p]
       /\ <<p, "r">> \in opened
       /\ \E k \in Lines(p) : output[k].status = "nochange"

\* the substitution changes the text of the bytes b
Changed(b) == Valid(b) /\ Transform(Decode(b)) # Decode(b)

\* the bytes b are a text without a linked heading
NoHeading(b) == Valid(b) /\ Headings(Decode(b), 1) = << >>

\* the statuses printed for path p
Statuses(p) == {output[k].status : k \in Lines(p)}

IsPrefix(a, b) == Len(a) <= Len(b) /\ SubSeq(b, 1, Len(a)) = a

\* Of the contents the CHANGELOG.md files of Init hold: those without a linked
\* heading, those whose text the substitution changes, and what each is to
\* become (a file that cannot be decoded is to keep its bytes).
HeadingFree == {b \in Scenarios : NoHeading(b)}

Changing == {b \in Scenarios : Changed(b)}

Targets == [b \in Scenarios |-> IF Valid(b) THEN Target(b) ELSE b]

\* C3: a CHANGELOG.md without a linked heading (an empty one too) is never
\* opened for writing and keeps its content; the substitution leaves its text
\* as it is, and the status printed for it is "no change needed" (or, when
\* reading it failed, the error), once.
C3_NoHeadingNoWrite ==
  \A p \in Changelogs(tree) :
    orig[p] \in HeadingFree =>
      /\ <<p, "w">> \notin opened
      /\ disk[p] = orig[p]
      /\ (cur = p /\ pc = "compare") => new_content = content
      /\ (cur = p /\ pc \in {"print_nochange", "print_removed", "open_w", "write"})
           => pc = "print_nochange"
      /\ Statuses(p) \subseteq {"nochange", "error"}
      /\ pc = "done" => Cardinality(Lines(p)) = 1

\* the run is over: an empty CHANGELOG.md was read and reported unchanged,
\* beside one that was rewritten
C3_Witness ==
  /\ pc = "done"
  /\ \E p, q \in Changelogs(tree) :
       /\ orig[p] = Empty
       /\ <<p, "r">> \in opened
       /\ Statuses(p) = {"nochange"}
       /\ Statuses(q) = {"removed"}

\* C4: a file is opened for writing only when the substituted text differs
\* from the text read; when the write is done the file holds the substituted
\* text and nothing else, and "removed link" is printed for it: at the end of
\* the run a file whose text differs has that status, or the error that
\* stopped it.
C4_WriteBackWhenDifferent ==
  \A p \in Changelogs(tree) :
    /\ <<p, "w">> \in opened => orig[p] \in Changing
    /\ (cur = p /\ pc = "print_removed") => disk[p] = Encode(new_content)
    /\ "removed" \in Statuses(p) => <<p, "w">> \in opened /\ disk[p] = Targets[orig[p]]
    /\ (pc = "done" /\ orig[p] \in Changing) =>
         /\ Cardinality(Lines(p)) = 1
         /\ Statuses(p) \subseteq {"removed", "error"}

\* the run is over and a file holds its substituted text in place of its own
C4_Witness ==
  /\ pc = "done"
  /\ \E p \in Changelogs(tree) :
       /\ Statuses(p) = {"removed"}
       /\ disk[p] # orig[p]
       /\ disk[p] = Targets[orig[p]]

\* C5: a file whose name is not exactly CHANGELOG.md (changelog.md,
\* CHANGELOG.md.bak) is never opened, for reading or for writing, and keeps
\* its content, at any depth.
C5_OtherFilesUntouched ==
  \A d \in DOMAIN tree :
    \A f \in tree[d].files :
      f # "CHANGELOG.md" =>
        /\ <<Join(d, f), "r">> \notin opened
        /\ <<Join(d, f), "w">> \notin opened
        /\ disk[Join(d, f)] = orig[Join(d, f)]
        /\ cur # Join(d, f)

\* the run is over: the CHANGELOG.md two levels down was rewritten and the
\* linked headings of changelog.md and CHANGELOG.md.bak are still there
C5_Witness ==
  /\ pc = "done"
  /\ Statuses("./pkg/core/CHANGELOG.md") = {"removed"}
  /\ disk["./changelog.md"] = Linked
  /\ disk["./docs/CHANGELOG.md.bak"] = Linked
  /\ disk["./pkg/core/README.md"] = Linked

\* C7: every status line is of one of the three forms and names a
\* CHANGELOG.md; "removed link" is printed for a file that was written, "no
\* change needed" for one that was not, "error processing" with the failure;
\* no file has two lines, and at the end of the run each CHANGELOG.md has one.
C7_OneStatusLinePerFile ==
  /\ \A k \in DOMAIN output :
       /\ output[k].path \in Changelogs(tree)
       /\ output[k].status \in {"removed", "nochange", "error"}
       /\ output[k].status = "removed" =>
            <<output[k].path, "w">> \in opened /\ disk[output[k].path] # orig[output[k].path]
       /\ output[k].status = "nochange" =>
            <<output[k].path, "w">> \notin opened /\ disk[output[k].path] = orig[output[k].path]
       /\ output[k].status = "error" <=> output[k].desc # ""
  /\ \A p \in Changelogs(tree) : Cardinality(Lines(p)) <= 1
  /\ pc = "done" => \A p \in Changelogs(tree) : Cardinality(Lines(p)) = 1

\* the run is over with an error line for one file and a line of another
\* form for the other
C7_Witness ==
  /\ pc = "done"
  /\ Len(output) = 2
  /\ output[1].status = "error"
  /\ output[2].status = "nochange"

\* C10 as stated: at every moment every CHANGELOG.md holds its original
\* content or its whole substituted content.
C10_AllOrNothing ==
  \A p \in Changelogs(tree) :
    \/ disk[p] = orig[p]
    \/ disk[p] = Targets[orig[p]]

\* C10 as amended: a CHANGELOG.md holds its original content until it is
\* opened for writing; from then on it holds the beginning of its substituted
\* content (nothing at first, a truncated part if the write failed or the run
\* was terminated), and the whole of it once the write is done.
C10_OriginalOrPrefixOfNew ==
  \A p \in Changelogs(tree) :
    /\ <<p, "w">> \notin opened => disk[p] = orig[p]
    /\ <<p, "w">> \in opened => Valid(orig[p]) /\ IsPrefix(disk[p], Targets[orig[p]])
    /\ (<<p, "w">> \in opened /\ disk[p] # Targets[orig[p]]) =>
         /\ "removed" \notin Statuses(p)
         /\ \/ cur = p /\ pc \in {"write", "except", "killed"}
            \/ "error" \in Statuses(p)

\* an error was reported for a file that is left truncated, and the run went
\* on or was terminated
C10_Witness ==
  \E p \in Changelogs(tree) :
    /\ "error" \in Statuses(p)
    /\ disk[p] # << >>
    /\ disk[p] # orig[p]
    /\ disk[p] # Targets[orig[p]]

\* the steps between the choice of a file and its status line
FileSteps ==
  {"open_r", "read", "sub", "compare", "open_w", "write", "print_removed",
   "print_nochange", "except"}

\* at most one file is being processed: a file that was opened and has no
\* status line yet is the current one; each file has at most one line, whose
\* form and whose content on disk follow from its own content alone
OneAtATime ==
  /\ pc \in FileSteps => Lines(cur) = {}
  /\ \A p \in Changelogs(tree) :
       /\ Cardinality(Lines(p)) <= 1
       /\ ((<<p, "r">> \in opened \/ <<p, "w">> \in opened) /\ Lines(p) = {})
            => cur = p /\ pc \in FileSteps
       /\ "removed" \in Statuses(p) => orig[p] \in Changing /\ disk[p] = Targets[orig[p]]
       /\ "nochange" \in Statuses(p) => orig[p] \notin Changing /\ disk[p] = orig[p]
       /\ disk[p] # orig[p] => IsPrefix(disk[p], Targets[orig[p]])
       /\ pc = "done" => Cardinality(Lines(p)) = 1

\* C6: a failure on a CHANGELOG.md is printed with the path of the file and
\* what failed, the files found after it are processed, and the run reaches
\* the end of the walk.
C6_FailureIsReportedAndRunGoesOn ==
  \A p \in Changelogs(FullTree) :
    (pc = "except" /\ cur = p) ~>
      /\ pc = "done"
      /\ \E k \in Lines(p) :
           output[k].status = "error"
           /\ output[k].desc \in {"PermissionError", "UnicodeDecodeError", "OSError"}
      /\ \A q \in Changelogs(FullTree) : Lines(q) # {}

\* the run is over: the first file failed and the second one was rewritten
C6_Witness ==
  /\ pc = "done"
  /\ Len(output) = 2
  /\ output[1].status = "error"
  /\ output[2].status = "removed"

\* C9: the run ends, and until then the files are processed one at a time,
\* each once, none depending on another.
C9_RunEndsOneFileAtATime == <>(pc = "done") /\ []OneAtATime

\* the second file is being compared after the first got its line
C9_Witness ==
  /\ pc = "compare"
  /\ Len(output) = 1
  /\ output[1].path # cur
  /\ output[1].status = "removed"
  /\ new_content # content

====
